---- MODULE Spec2Model ----
(***************************************************************************)
(* Model of the websocket gateway of api/src/websocket: the socket         *)
(* controller (upgrade, three authentication modes, the token-expiry       *)
(* timer), the REST websocket controller (message pipeline, close/error    *)
(* events) and the subscribe handler (registry, dispatcher, presence and   *)
(* focus).                                                                 *)
(*                                                                         *)
(* Every `await` of the source is a suspension point: the code before it   *)
(* and the code after it are separate actions, and what the code read      *)
(* before the await is carried in the suspended task.  Consecutive awaits  *)
(* between which the code neither reads nor writes shared state are one    *)
(* suspension (getSchema + hasCollection; getSchema + the read).           *)
(***************************************************************************)
EXTENDS Integers, Sequences, FiniteSets, Bags, TLC

Null == "null"

\* ---------------------------------------------------------------- bounds
MaxFrames == 2
MaxEvents == 2
MaxTurns == 4
MaxUids == 3
MaxInbound == 3
MaxSockets == 3
MaxBetween == 3

\* ------------------------------------------------------ the small universe
Clients == {"c1", "c2"}
Users == {"u1", "u2"}
Collections == {"directus_users", "articles"}
Modes == {"public", "handshake", "strict"}

\* ------------------------------------------------------------- variables
VARIABLES
  mode,            \* SocketController.authentication.mode
  sock,            \* per socket: "idle" | "open" | "errored" | "closed" | "destroyed"
  bound,           \* sockets createClient has installed its handlers on
  clients,         \* SocketController.clients
  accountability,  \* client.accountability
  expiresAt,       \* client.expiresAt
  authTimer,       \* SocketController.authTimer: the client of the armed timer, or Null
  grace,           \* clients with a pending waitForMessageType(client, 'AUTH', timeout)
  subscriptions,   \* SubscribeHandler.subscriptions, as the set of all subscriptions
  keys,            \* Object.keys(SubscribeHandler.subscriptions), in creation order
  onlineStatus,    \* SubscribeHandler.onlineStatus
  userFocus,       \* SubscribeHandler.userFocus
  tasks,           \* suspended asynchronous invocations (a bag: two may be equal)
  sent,            \* per socket, the frames passed to send(), in order
  nextSeq,         \* insertion stamp of the next registered Subscription object
  received,        \* history: per socket, the frames that arrived, in order
  nEvents,         \* data-mutation events emitted so far
  focusBy,         \* history: the client that wrote userFocus[u]
  hsFirst,         \* history: what ended the handshake wait of a socket
  emitted,         \* history: per event, its collection, action and the bucket then
  ws,              \* app: the module's WebSocket, "connecting" | "open" | "null"
  uidCounter,      \* app: the next value the uidCounter generator yields
  onMessageCallbacks, \* app: uid -> "none" | "subscription" | "send"
  promises,        \* app: uid -> the state of the promise send() returned
  returned,        \* app history: the uids subscribe() returned
  delivered,       \* app history: the inbound frames, with the callback calls they made
  timers,          \* app: uid -> the setTimeout of send(), "none" | "armed" | "fired"
  authenticated,   \* app: the module's authenticated flag
  connectCallbacks,    \* app: a callback is registered with onConnect
  disconnectCallbacks, \* app: a callback is registered with onDisconnect
  connectCalls,    \* app history: the circumstances of the connect callback calls
  notified,        \* app history: disconnect callback calls made by the latest close
  authUid,         \* app history: the uid of the HANDSHAKE request of the socket (-1: none)
  authReplied,     \* app history: a frame with that uid came in on the socket
  sockets,         \* app history: WebSocket objects created and not closed
  reconnectTimers, \* app: pending setTimeout(connectWebSocket) timers
  opened,          \* app history: WebSocket objects created so far, up to MaxSockets
  firstSent,       \* app history: the type of the first frame sent on the socket
  clientWs         \* app: this.ws of the client of getWebSocket(), "none" (no client
                   \* yet) | "null" | "current" (the module's latest socket) | "stale"

server == <<mode, sock, bound, clients, accountability, expiresAt, authTimer, grace,
            subscriptions, keys, onlineStatus, userFocus, tasks, sent, nextSeq,
            received, nEvents, focusBy, hsFirst, emitted>>

app == <<ws, uidCounter, onMessageCallbacks, promises, returned, delivered, timers,
         authenticated, connectCallbacks, disconnectCallbacks, connectCalls, notified,
         authUid, authReplied, sockets, reconnectTimers, opened, firstSent, clientWs>>

vars == <<server, app>>

\* ------------------------------------------------- external collaborators
\* An Accountability object, and the null accountability (set = FALSE).
Acc(user, admin) == [set |-> TRUE, user |-> user, admin |-> admin]
NullAcc == [set |-> FALSE, user |-> Null, admin |-> FALSE]

\* getAccountabilityForToken: TRUE when the token resolves, and the
\* accountability it resolves to.
tokenResolves(token) == token \in {"tokA", "tokB", "tokP"}
getAccountabilityForToken(token) ==
  CASE token = "tokA" -> Acc("u1", FALSE)
    [] token = "tokB" -> Acc("u2", TRUE)
    [] token = "tokP" -> Acc(Null, FALSE)
    [] OTHER -> NullAcc

\* getExpiresAtForToken: the exp claim of the token ("tokB" carries none).
getExpiresAtForToken(token) ==
  IF token = "tokA" THEN "expA" ELSE Null

\* schema.hasCollection under an accountability: the public schema does not
\* expose directus_users.
hasCollection(acc, collection) ==
  \/ collection = "articles"
  \/ collection = "directus_users" /\ acc.user # Null

\* trimUpper of utils/message, on the type strings frames carry.
trimUpper(type) ==
  CASE type = "auth" -> "AUTH"
    [] type = " subscribe" -> "SUBSCRIBE"
    [] OTHER -> type

\* ---------------------------------------------------------------- frames
\* A raw frame: json = FALSE is a frame JSON.parse rejects.  item = Null and
\* uid = Null stand for an absent key.
Frame(type, token, collection, item, status, uid, query) ==
  [json |-> TRUE, type |-> type, access_token |-> token, collection |-> collection,
   item |-> item, status |-> status, uid |-> uid, query |-> query, action |-> Null]

Garbage == [Frame("", Null, Null, Null, FALSE, Null, Null) EXCEPT !.json = FALSE]
AuthFrame(type, token) == Frame(type, token, Null, Null, FALSE, Null, Null)
SubscribeFrame(collection, item, status, uid, query) ==
  Frame("SUBSCRIBE", Null, collection, item, status, uid, query)
UnsubscribeFrame(uid) == Frame("UNSUBSCRIBE", Null, Null, Null, FALSE, uid, Null)
FocusFrame(collection, item) == Frame("FOCUS", Null, collection, item, FALSE, Null, Null)

\* An ITEMS message: action is its 'action' key (Null: absent).
ItemsFrame(collection, action, uid) ==
  [Frame("ITEMS", Null, collection, Null, FALSE, uid, "q1") EXCEPT !.action = action]

NoFrame == Frame(Null, Null, Null, Null, FALSE, Null, Null)

\* parseIncomingMessage: JSON.parse (parses = FALSE when it throws), then the
\* type uppercased.
parses(data) == data.json
parseIncomingMessage(data) == [data EXCEPT !.type = trimUpper(data.type)]

\* authenticateConnection / authenticateWithToken on an access_token message:
\* ok = FALSE when it throws, else the new authentication state.
authenticateConnection(message) ==
  IF message.access_token = Null \/ ~tokenResolves(message.access_token)
  THEN [ok |-> FALSE, accountability |-> NullAcc, expiresAt |-> Null]
  ELSE [ok |-> TRUE,
        accountability |-> getAccountabilityForToken(message.access_token),
        expiresAt |-> getExpiresAtForToken(message.access_token)]

\* refreshAccountability: a fresh object for the role, with the user kept.
refreshAccountability(acc) == Acc(acc.user, acc.admin)

\* ------------------------------------------------------ frames sent out
OutFrame(type, status, event, code, uid, sub, ev) ==
  [type |-> type, status |-> status, event |-> event, code |-> code, uid |-> uid,
   sub |-> sub, ev |-> ev]

authenticationSuccess == OutFrame("auth", "ok", Null, Null, Null, 0, 0)
authenticationError(code) == OutFrame("auth", "error", Null, code, Null, 0, 0)
errorMessage(code) == OutFrame("error", "error", Null, code, Null, 0, 0)
\* errorMessage(text, uid) and fmtMessage('items', {data}, uid) of ItemsHandler
itemsError(code, uid) == OutFrame("error", "error", Null, code, uid, 0, 0)
itemsFrame(uid) == OutFrame("items", Null, Null, Null, uid, 0, 0)
\* handleWebsocketException(client, error, 'subscribe')
subscribeError(code, uid) == OutFrame("subscribe", "error", Null, code, uid, 0, 0)
\* fmtMessage('subscription', {event, ...}, uid)
subscriptionFrame(event, sub, ev) ==
  OutFrame("subscription", Null, event, Null, sub.uid, sub.seq, ev)

\* The error frame of the catch of dispatch; sub and ev record the
\* subscription and the event it was sent for.
dispatchError(sub, ev) ==
  [subscribeError("FORBIDDEN", Null) EXCEPT !.sub = sub.seq, !.ev = ev]

\* client.send(frame): the frame is recorded with the socket state at the call.
send(log, socks, c, frame) ==
  [log EXCEPT ![c] = Append(@, [frame |-> frame, open |-> socks[c] = "open"])]

\* --------------------------------------------------------- subscriptions
\* A Subscription object.  seq orders the objects of a bucket as the Set that
\* holds them iterates (insertion order); 0 before it is registered.
Subscription(seq, client, collection, item, status, uid, query) ==
  [seq |-> seq, client |-> client, collection |-> collection, item |-> item,
   status |-> status, uid |-> uid, query |-> query]
NoSub == Subscription(0, Null, Null, Null, FALSE, Null, Null)

\* A suspended invocation: kind "hs" (handleHandshakeUpgrade), "auth" (inline
\* AUTH of the message handler), "msg" (parsed-message handler, continuing in
\* SubscribeHandler.onMessage) or "disp" (SubscribeHandler.dispatch); pc names
\* the await it is suspended on.  id is the position of the frame among the
\* frames of its socket ("auth", "msg"), else 0.
Task(id, kind, pc, client, msg, acc, sub, collection, action, ev) ==
  [id |-> id, kind |-> kind, pc |-> pc, client |-> client, msg |-> msg, acc |-> acc,
   sub |-> sub, collection |-> collection, action |-> action, ev |-> ev]

\* The part of the state the synchronous helpers of SubscribeHandler change,
\* threaded through the calls one handler makes in a row.
Reg ==
  [subs |-> subscriptions, keys |-> keys, tasks |-> tasks, nextSeq |-> nextSeq,
   focus |-> userFocus, by |-> focusBy, online |-> onlineStatus]

Commit(R) ==
  /\ subscriptions' = R.subs
  /\ keys' = R.keys
  /\ tasks' = R.tasks
  /\ nextSeq' = R.nextSeq
  /\ userFocus' = R.focus
  /\ focusBy' = R.by
  /\ onlineStatus' = R.online

Bucket(subs, collection) == {s \in subs : s.collection = collection}

\* The objects of a set of subscriptions in insertion order.
RECURSIVE InOrder(_)
InOrder(B) ==
  IF B = {} THEN <<>>
  ELSE LET m == CHOOSE s \in B : \A t \in B : s.seq <= t.seq
       IN <<m>> \o InOrder(B \ {m})

RECURSIVE Reverse(_)
Reverse(q) == IF q = <<>> THEN <<>> ELSE Reverse(Tail(q)) \o <<Head(q)>>

\* The dispatch loop's two filters, applied before the read.
skipped(sub, action) ==
  \/ action = "focus" /\ ~sub.status
  \/ /\ action = "status"
     /\ sub.item # Null
     /\ ~(sub.collection = "directus_users" /\ sub.status)

\* A dispatch that returns after the first subscription it does not skip.
nextInLoopFirstOnly(subs, collection, action, after) ==
  LET C == {s \in Bucket(subs, collection) : s.seq > after /\ ~skipped(s, action)}
  IN IF C = {} \/ after > 0 THEN NoSub ELSE CHOOSE s \in C : \A t \in C : s.seq <= t.seq

\* The for-of loop of dispatch over the live Set of the bucket: the next
\* subscription after position `after` that is not skipped (NoSub: loop ends).
nextInLoop(subs, collection, action, after) ==
  LET C == {s \in Bucket(subs, collection) : s.seq > after /\ ~skipped(s, action)}
  IN IF C = {} THEN NoSub ELSE CHOOSE s \in C : \A t \in C : s.seq <= t.seq

\* The dispatch loop from position `after` up to its next await: the loop runs
\* to the first subscription it does not skip, reads that client's
\* accountability and suspends on refreshAccountability.  The result is the
\* suspended invocation, or nothing when the loop has ended.
loopFrom(subs, accs, collection, action, ev, after) ==
  LET n == nextInLoop(subs, collection, action, after)
  IN IF n = NoSub THEN {}
     ELSE {Task(0, "disp", "refresh", n.client, NoFrame, accs[n.client], n,
                collection, action, ev)}

\* dispatch(collection, data), up to its first await.
dispatch(R, accs, collection, action, ev) ==
  [R EXCEPT !.tasks = @ (+) SetToBag(loopFrom(R.subs, accs, collection, action, ev, 0))]

\* subscribe(subscription): the bucket is created on first use.
subscribe(R, subscription) ==
  [R EXCEPT !.subs = @ \cup {[subscription EXCEPT !.seq = R.nextSeq]},
            !.nextSeq = @ + 1,
            !.keys = IF \E i \in 1..Len(@) : @[i] = subscription.collection
                     THEN @ ELSE Append(@, subscription.collection)]

\* Object.values(this.subscriptions) flattened: the buckets in key order, each
\* in insertion order.
RECURSIVE allSubscriptions(_, _)
allSubscriptions(subs, ks) ==
  IF ks = <<>> THEN <<>>
  ELSE InOrder(Bucket(subs, Head(ks))) \o allSubscriptions(subs, Tail(ks))

\* getSubscription(uid): the first subscription with that uid, of any client.
getSubscription(R, uid) ==
  LET all == allSubscriptions(R.subs, R.keys)
      hit == {i \in 1..Len(all) : all[i].uid = uid}
  IN IF hit = {} THEN NoSub ELSE all[CHOOSE i \in hit : \A j \in hit : i <= j]

\* The removal loop of unsubscribe(client): each subscription of the list is
\* deleted and a focus dispatch started, in turn.
RECURSIVE removeEach(_, _, _)
removeEach(R, accs, list) ==
  IF list = <<>> THEN R
  ELSE removeEach(dispatch([R EXCEPT !.subs = @ \ {Head(list)}], accs,
                           Head(list).collection, "focus", 0),
                  accs, Tail(list))

\* The subscriptions unsubscribe(client) visits: per key, the bucket from its
\* last element to its first, those of the client.
RECURSIVE ownedBackwards(_, _, _)
ownedBackwards(subs, ks, client) ==
  IF ks = <<>> THEN <<>>
  ELSE SelectSeq(Reverse(InOrder(Bucket(subs, Head(ks)))), LAMBDA s : s.client = client)
       \o ownedBackwards(subs, Tail(ks), client)

\* unsubscribe(client, uid)
unsubscribe(R, accs, client, uid) ==
  IF uid # Null
  THEN LET subscription == getSubscription(R, uid)
       IN IF subscription # NoSub /\ subscription.client = client
          THEN dispatch([R EXCEPT !.subs = @ \ {subscription}], accs,
                        subscription.collection, "focus", 0)
          ELSE R
  ELSE removeEach(R, accs, ownedBackwards(R.subs, R.keys, client))

\* ------------------------------------------------------ presence and focus
Focus(collection, item) == [set |-> TRUE, collection |-> collection, item |-> item]
NoFocus == [set |-> FALSE, collection |-> Null, item |-> Null]

addFocus(R, accs, client, collection, item) ==
  IF accs[client].user = Null THEN R
  ELSE dispatch([R EXCEPT !.focus[accs[client].user] = Focus(collection, item),
                          !.by[accs[client].user] = client],
                accs, collection, "focus", 0)

removeFocus(R, accs, client) ==
  IF accs[client].user = Null \/ ~R.focus[accs[client].user].set THEN R
  ELSE dispatch([R EXCEPT !.focus[accs[client].user] = NoFocus,
                          !.by[accs[client].user] = Null],
                accs, R.focus[accs[client].user].collection, "focus", 0)

userOnline(R, accs, client) ==
  IF accs[client].user = Null THEN R
  ELSE dispatch([R EXCEPT !.online = @ \cup {accs[client].user}],
                accs, "directus_users", "status", 0)

userOffline(R, accs, client) ==
  IF accs[client].user = Null THEN R
  ELSE dispatch([R EXCEPT !.online = @ \ {accs[client].user}],
                accs, "directus_users", "status", 0)

\* ------------------------------------------------------------ the state
\* The uids the app's counter issues.
Uids == 0..(MaxUids - 1)

\* The promise of a send(): state "none" | "pending" | "resolved", and the
\* inbound frame it was resolved with, by its position among the inbound
\* frames (0: resolved with the literal { status: 'ok' }).
NoPromise == [state |-> "none", frame |-> 0]
Resolved(frame) == [state |-> "resolved", frame |-> frame]

\* The number of frames that arrived so far, on all sockets.
RECURSIVE framesOf(_)
framesOf(S) ==
  IF S = {} THEN 0
  ELSE LET c == CHOOSE x \in S : TRUE IN Len(received[c]) + framesOf(S \ {c})
nFrames == framesOf(Clients)

NoHandshake == [how |-> "none", data |-> NoFrame]

Init ==
  /\ mode \in Modes
  /\ sock = [c \in Clients |-> "idle"]
  /\ bound = {}
  /\ clients = {}
  /\ accountability = [c \in Clients |-> NullAcc]
  /\ expiresAt = [c \in Clients |-> Null]
  /\ authTimer = Null
  /\ grace = {}
  /\ subscriptions = {}
  /\ keys = <<>>
  /\ onlineStatus = {}
  /\ userFocus = [u \in Users |-> NoFocus]
  /\ tasks = EmptyBag
  /\ sent = [c \in Clients |-> <<>>]
  /\ nextSeq = 1
  /\ received = [c \in Clients |-> <<>>]
  /\ nEvents = 0
  /\ focusBy = [u \in Users |-> Null]
  /\ hsFirst = [c \in Clients |-> NoHandshake]
  /\ emitted = <<>>
  /\ ws = "connecting"
  /\ uidCounter = 0
  /\ onMessageCallbacks = [uid \in Uids |-> "none"]
  /\ promises = [uid \in Uids |-> NoPromise]
  /\ returned = {}
  /\ delivered = <<>>
  /\ timers = [uid \in Uids |-> "none"]
  /\ authenticated = FALSE
  /\ connectCallbacks = FALSE
  /\ disconnectCallbacks = FALSE
  /\ connectCalls = {}
  /\ notified = 0
  /\ authUid = -1
  /\ authReplied = FALSE
  /\ sockets = 1
  /\ reconnectTimers = 0
  /\ opened = 1
  /\ firstSent = "none"
  /\ clientWs = "none"

\* setTokenExpireTimer(client): the armed timer is cleared, and a new one is
\* armed when the client has an expiresAt.
setTokenExpireTimer(client, expires) == IF expires = Null THEN Null ELSE client

\* createClient(ws, state), then bindEvents(client) with its websocket.connect.
createClient(c, state, R) ==
  /\ accountability' = [accountability EXCEPT ![c] = state.accountability]
  /\ expiresAt' = [expiresAt EXCEPT ![c] = state.expiresAt]
  /\ bound' = bound \cup {c}
  /\ authTimer' = setTokenExpireTimer(c, state.expiresAt)
  /\ clients' = clients \cup {c}
  /\ Commit(userOnline(R, accountability', c))

\* The catch branch of handleHandshakeUpgrade: the error frame, then ws.close().
rejectHandshake(t) ==
  /\ sent' = send(sent, sock, t.client, errorMessage("AUTHENTICATION_FAILED"))
  /\ sock' = [sock EXCEPT ![t.client] = "closed"]
  /\ tasks' = tasks (-) SetToBag({t})
  /\ UNCHANGED <<bound, clients, accountability, expiresAt, authTimer, subscriptions,
                 keys, onlineStatus, userFocus, nextSeq, focusBy>>

\* Sockets are interchangeable: they are taken into use in a fixed order.
before(d, c) == d = "c1" /\ c = "c2"

\* handleUpgrade whose strict branch lacks the test of the resolved
\* accountability: every upgrade request is accepted.
handleUpgradeUnguarded(c, token) ==
  /\ sock[c] = "idle"
  /\ \A d \in Clients : before(d, c) => sock[d] # "idle"
  /\ UNCHANGED <<app, emitted, mode, grace, sent, received, nEvents, hsFirst>>
  /\ sock' = [sock EXCEPT ![c] = "open"]
  /\ createClient(c, [accountability |-> IF token # Null /\ tokenResolves(token)
                                         THEN getAccountabilityForToken(token) ELSE NullAcc,
                      expiresAt |-> IF token # Null /\ tokenResolves(token)
                                    THEN getExpiresAtForToken(token) ELSE Null], Reg)

\* handleUpgrade: an upgrade request on the endpoint, with the access_token of
\* its query string (Null: none).
handleUpgrade(c, token) ==
  /\ sock[c] = "idle"
  /\ \A d \in Clients : before(d, c) => sock[d] # "idle"
  /\ UNCHANGED <<app, emitted, mode, grace, sent, received, nEvents, hsFirst>>
  /\ CASE mode = "public" ->
            /\ sock' = [sock EXCEPT ![c] = "open"]
            /\ createClient(c, [accountability |-> NullAcc, expiresAt |-> Null], Reg)
       [] mode = "handshake" ->
            /\ sock' = [sock EXCEPT ![c] = "open"]
            /\ tasks' = tasks (+) SetToBag({Task(0, "hs", "wait", c, NoFrame, NullAcc,
                                                  NoSub, Null, Null, 0)})
            /\ UNCHANGED <<bound, clients, accountability, expiresAt, authTimer,
                           subscriptions, keys, onlineStatus, userFocus, nextSeq, focusBy>>
       [] mode = "strict" ->
            LET accountabilityOf == IF token # Null /\ tokenResolves(token)
                                    THEN getAccountabilityForToken(token) ELSE NullAcc
                expiresOf == IF token # Null /\ tokenResolves(token)
                             THEN getExpiresAtForToken(token) ELSE Null
            IN IF ~accountabilityOf.set \/ accountabilityOf.user = Null
               THEN /\ sock' = [sock EXCEPT ![c] = "destroyed"]
                    /\ UNCHANGED <<bound, clients, accountability, expiresAt, authTimer,
                                   subscriptions, keys, onlineStatus, userFocus, tasks,
                                   nextSeq, focusBy>>
               ELSE /\ sock' = [sock EXCEPT ![c] = "open"]
                    /\ createClient(c, [accountability |-> accountabilityOf,
                                        expiresAt |-> expiresOf], Reg)

\* The message handler whose catch of the parse error returns without a reply.
receiveFrameSilent(c, data) ==
  /\ sock[c] = "open"
  /\ received' = [received EXCEPT ![c] = Append(@, data)]
  /\ UNCHANGED <<app, emitted, mode, nEvents, bound, clients, accountability, expiresAt, authTimer,
                 subscriptions, keys, onlineStatus, userFocus, nextSeq, focusBy>>
  /\ \/ \E t \in BagToSet(tasks) :
          /\ t.kind = "hs" /\ t.pc = "wait" /\ t.client = c
          /\ hsFirst' = [hsFirst EXCEPT ![c] = [how |-> "frame", data |-> data]]
          /\ UNCHANGED <<grace>>
          /\ IF parses(data) /\ parseIncomingMessage(data).type = "AUTH"
             THEN /\ tasks' = (tasks (-) SetToBag({t})) (+)
                       SetToBag({[t EXCEPT !.pc = "auth", !.msg = parseIncomingMessage(data)]})
                  /\ UNCHANGED <<sent, sock>>
             ELSE /\ sent' = send(sent, sock, c, errorMessage("AUTHENTICATION_FAILED"))
                  /\ sock' = [sock EXCEPT ![c] = "closed"]
                  /\ tasks' = tasks (-) SetToBag({t})
     \/ /\ c \in bound
        /\ UNCHANGED <<sock, hsFirst>>
        /\ IF ~parses(data)
           THEN UNCHANGED <<sent, tasks, grace>>
           ELSE LET message == parseIncomingMessage(data)
                IN /\ grace' = IF message.type = "AUTH" THEN grace \ {c} ELSE grace
                   /\ tasks' = tasks (+) SetToBag(
                        {Task(Len(received'[c]),
                              IF message.type = "AUTH" THEN "auth" ELSE "msg",
                              IF message.type = "AUTH" THEN "auth" ELSE "refresh",
                              c, message,
                              IF message.type = "AUTH" THEN NullAcc ELSE accountability[c],
                              NoSub, Null, Null, 0)})
                   /\ UNCHANGED <<sent>>

\* A frame arrives on an open socket and its 'message' listeners run: the
\* handshake's waitForAnyMessage, or the message handler of createClient
\* together with a pending waitForMessageType.  An AUTH frame suspends on
\* authenticateConnection.  Any other frame is emitted as 'parsed-message':
\* emitFilter has no listener in this code and resolves without I/O, so the
\* handler runs on to refreshAccountability(client.accountability), where it
\* suspends with the accountability it read.
receiveFrame(c, data) ==
  /\ sock[c] = "open"
  /\ received' = [received EXCEPT ![c] = Append(@, data)]
  /\ UNCHANGED <<app, emitted, mode, nEvents, bound, clients, accountability, expiresAt, authTimer,
                 subscriptions, keys, onlineStatus, userFocus, nextSeq, focusBy>>
  /\ \/ \E t \in BagToSet(tasks) :
          /\ t.kind = "hs" /\ t.pc = "wait" /\ t.client = c
          /\ hsFirst' = [hsFirst EXCEPT ![c] = [how |-> "frame", data |-> data]]
          /\ UNCHANGED <<grace>>
          /\ IF parses(data) /\ parseIncomingMessage(data).type = "AUTH"
             THEN /\ tasks' = (tasks (-) SetToBag({t})) (+)
                       SetToBag({[t EXCEPT !.pc = "auth", !.msg = parseIncomingMessage(data)]})
                  /\ UNCHANGED <<sent, sock>>
             ELSE /\ sent' = send(sent, sock, c, errorMessage("AUTHENTICATION_FAILED"))
                  /\ sock' = [sock EXCEPT ![c] = "closed"]
                  /\ tasks' = tasks (-) SetToBag({t})
     \/ /\ c \in bound
        /\ UNCHANGED <<sock, hsFirst>>
        /\ IF ~parses(data)
           THEN /\ sent' = send(sent, sock, c, errorMessage("INVALID_PAYLOAD"))
                /\ UNCHANGED <<tasks, grace>>
           ELSE LET message == parseIncomingMessage(data)
                IN /\ grace' = IF message.type = "AUTH" THEN grace \ {c} ELSE grace
                   /\ tasks' = tasks (+) SetToBag(
                        {Task(Len(received'[c]),
                              IF message.type = "AUTH" THEN "auth" ELSE "msg",
                              IF message.type = "AUTH" THEN "auth" ELSE "refresh",
                              c, message,
                              IF message.type = "AUTH" THEN NullAcc ELSE accountability[c],
                              NoSub, Null, Null, 0)})
                   /\ UNCHANGED <<sent>>

\* A frame arrives, at any moment.
onMessageFrame(c, data) == nFrames < MaxFrames /\ receiveFrame(c, data)

\* A frame arrives from peers that send their next frame once the handling
\* of every earlier frame has ended.
onMessageFrameInTurn(c, data) ==
  tasks = EmptyBag /\ nFrames < MaxTurns /\ receiveFrame(c, data)

\* A frame arrives from peers that send their next frame once the handling
\* of every earlier frame has ended, while dispatches may be under way.
onMessageFrameBetween(c, data) ==
  /\ \A t \in BagToSet(tasks) : t.kind = "disp"
  /\ nFrames < MaxBetween
  /\ receiveFrame(c, data)

\* The timer of waitForAnyMessage fires before a first frame arrived.
handshakeTimeout(t) ==
  /\ t.kind = "hs" /\ t.pc = "wait"
  /\ hsFirst' = [hsFirst EXCEPT ![t.client] = [how |-> "timeout", data |-> NoFrame]]
  /\ rejectHandshake(t)
  /\ UNCHANGED <<app, emitted, mode, grace, received, nEvents>>

\* handleHandshakeUpgrade with the result of authenticateConnection left
\* unexamined: the client is created whatever the authentication returned.
handleHandshakeUpgradeUnchecked(t) ==
  /\ t.kind = "hs" /\ t.pc = "auth"
  /\ UNCHANGED <<app, emitted, mode, grace, received, nEvents, hsFirst>>
  /\ sent' = send(sent, sock, t.client, authenticationSuccess)
  /\ UNCHANGED <<sock>>
  /\ createClient(t.client, authenticateConnection(t.msg),
                  [Reg EXCEPT !.tasks = @ (-) SetToBag({t})])

\* handleHandshakeUpgrade resumes from authenticateConnection.
handleHandshakeUpgrade(t) ==
  /\ t.kind = "hs" /\ t.pc = "auth"
  /\ UNCHANGED <<app, emitted, mode, grace, received, nEvents, hsFirst>>
  /\ IF authenticateConnection(t.msg).ok
     THEN /\ sent' = send(sent, sock, t.client, authenticationSuccess)
          /\ UNCHANGED <<sock>>
          /\ createClient(t.client, authenticateConnection(t.msg),
                          [Reg EXCEPT !.tasks = @ (-) SetToBag({t})])
     ELSE rejectHandshake(t)

\* The inline AUTH without its call of setTokenExpireTimer.
messageAuthKeepsTimer(t) ==
  /\ t.kind = "auth"
  /\ UNCHANGED <<app, emitted, mode, sock, bound, clients, grace, subscriptions, keys, onlineStatus,
                 userFocus, nextSeq, received, nEvents, focusBy, hsFirst>>
  /\ IF authenticateConnection(t.msg).ok
     THEN /\ accountability' = [accountability EXCEPT
                                  ![t.client] = authenticateConnection(t.msg).accountability]
          /\ expiresAt' = [expiresAt EXCEPT
                             ![t.client] = authenticateConnection(t.msg).expiresAt]
          /\ UNCHANGED <<authTimer>>
          /\ sent' = send(sent, sock, t.client, authenticationSuccess)
          /\ tasks' = tasks (-) SetToBag({t})
     ELSE /\ accountability' = [accountability EXCEPT ![t.client] = NullAcc]
          /\ expiresAt' = [expiresAt EXCEPT ![t.client] = Null]
          /\ sent' = send(sent, sock, t.client, authenticationError("AUTHENTICATION_FAILED"))
          /\ tasks' = (tasks (-) SetToBag({t})) (+)
                        SetToBag({[t EXCEPT !.kind = "msg", !.pc = "refresh", !.acc = NullAcc]})
          /\ UNCHANGED <<authTimer>>

\* The message handler of createClient resumes from authenticateConnection on
\* an AUTH frame.  Success ends the handling; after a failure the handler
\* falls through to ws.emit('parsed-message', message), which runs up to
\* refreshAccountability(client.accountability) as in onMessageFrame.
messageAuth(t) ==
  /\ t.kind = "auth"
  /\ UNCHANGED <<app, emitted, mode, sock, bound, clients, grace, subscriptions, keys, onlineStatus,
                 userFocus, nextSeq, received, nEvents, focusBy, hsFirst>>
  /\ IF authenticateConnection(t.msg).ok
     THEN /\ accountability' = [accountability EXCEPT
                                  ![t.client] = authenticateConnection(t.msg).accountability]
          /\ expiresAt' = [expiresAt EXCEPT
                             ![t.client] = authenticateConnection(t.msg).expiresAt]
          /\ authTimer' = setTokenExpireTimer(t.client,
                                              authenticateConnection(t.msg).expiresAt)
          /\ sent' = send(sent, sock, t.client, authenticationSuccess)
          /\ tasks' = tasks (-) SetToBag({t})
     ELSE /\ accountability' = [accountability EXCEPT ![t.client] = NullAcc]
          /\ expiresAt' = [expiresAt EXCEPT ![t.client] = Null]
          /\ sent' = send(sent, sock, t.client, authenticationError("AUTHENTICATION_FAILED"))
          /\ tasks' = (tasks (-) SetToBag({t})) (+)
                        SetToBag({[t EXCEPT !.kind = "msg", !.pc = "refresh", !.acc = NullAcc]})
          /\ UNCHANGED <<authTimer>>

\* The parsed-message handler resumes from refreshAccountability, stores the
\* result and emits websocket.message: SubscribeHandler.onMessage runs up to
\* its first await (SUBSCRIBE) or to its end (UNSUBSCRIBE, FOCUS, others), and
\* ItemsHandler.onMessage up to its getSchema (ITEMS with a collection) or to
\* its end.
parsedMessage(t) ==
  /\ t.kind = "msg" /\ t.pc = "refresh"
  /\ accountability' = [accountability EXCEPT ![t.client] = refreshAccountability(t.acc)]
  /\ UNCHANGED <<app, emitted, mode, sock, bound, clients, expiresAt, authTimer, grace, received,
                 nEvents, hsFirst>>
  /\ sent' = IF t.msg.type = "ITEMS" /\ t.msg.collection = Null
             THEN send(sent, sock, t.client, itemsError("invalid collection", t.msg.uid))
             ELSE sent
  /\ LET R == [Reg EXCEPT !.tasks = @ (-) SetToBag({t})]
     IN CASE t.msg.type = "ITEMS" /\ t.msg.collection # Null ->
               Commit([R EXCEPT !.tasks = @ (+) SetToBag(
                         {[t EXCEPT !.pc = "items_schema", !.acc = accountability'[t.client]]})])
          [] t.msg.type = "SUBSCRIBE" ->
               Commit([R EXCEPT !.tasks = @ (+) SetToBag(
                         {[t EXCEPT !.pc = "schema", !.acc = accountability'[t.client]]})])
          [] t.msg.type = "UNSUBSCRIBE" ->
               Commit(unsubscribe(R, accountability', t.client, t.msg.uid))
          [] t.msg.type = "FOCUS" ->
               Commit(addFocus(R, accountability', t.client, t.msg.collection, t.msg.item))
          [] OTHER -> Commit(R)

\* onMessage (SUBSCRIBE) resumes from getSchema and hasCollection: the
\* collection check, the Subscription object, the removal of the prior
\* subscription, then the call of the first read.
onMessageSchema(t) ==
  /\ t.kind = "msg" /\ t.pc = "schema"
  /\ UNCHANGED <<app, emitted, mode, sock, bound, clients, accountability, expiresAt, authTimer, grace,
                 received, nEvents, hsFirst>>
  /\ IF ~t.acc.admin /\ ~hasCollection(t.acc, t.msg.collection)
     THEN /\ sent' = send(sent, sock, t.client,
                          subscribeError("INVALID_COLLECTION", t.msg.uid))
          /\ Commit([Reg EXCEPT !.tasks = @ (-) SetToBag({t})])
     ELSE LET subscription == Subscription(0, t.client, t.msg.collection, t.msg.item,
                                           t.msg.status, t.msg.uid, t.msg.query)
              R == unsubscribe([Reg EXCEPT !.tasks = @ (-) SetToBag({t})], accountability,
                               t.client, subscription.uid)
          IN /\ Commit([R EXCEPT !.tasks = @ (+) SetToBag(
                          {[t EXCEPT !.pc = "read", !.sub = subscription]})])
             /\ UNCHANGED <<sent>>

\* onMessage (SUBSCRIBE) with addFocus called before the read is awaited: the
\* focus is recorded whether the read throws or not.
onMessageReadFocusFirst(t, ok) ==
  /\ t.kind = "msg" /\ t.pc = "read"
  /\ UNCHANGED <<app, emitted, mode, sock, bound, clients, accountability, expiresAt, authTimer, grace,
                 received, nEvents, hsFirst>>
  /\ IF ~ok
     THEN /\ sent' = send(sent, sock, t.client, subscribeError("FORBIDDEN", t.sub.uid))
          /\ Commit(IF t.sub.item # Null
                    THEN addFocus([Reg EXCEPT !.tasks = @ (-) SetToBag({t})], accountability,
                                  t.client, t.sub.collection, t.sub.item)
                    ELSE [Reg EXCEPT !.tasks = @ (-) SetToBag({t})])
     ELSE LET R0 == [Reg EXCEPT !.tasks = @ (-) SetToBag({t})]
              R1 == IF t.sub.item # Null
                    THEN addFocus(R0, accountability, t.client, t.sub.collection, t.sub.item)
                    ELSE R0
              registered == [t.sub EXCEPT !.seq = R1.nextSeq]
              R2 == dispatch(subscribe(R1, t.sub), accountability, t.sub.collection,
                             "focus", 0)
          IN /\ Commit(R2)
             /\ sent' = IF ~t.sub.status \/ t.sub.item = Null
                           \/ t.sub.collection # "directus_users"
                        THEN send(sent, sock, t.client, subscriptionFrame("init", registered, 0))
                        ELSE sent

\* onMessage (SUBSCRIBE) resumes from getSinglePayload / getMultiPayload: on a
\* throw the error frame; else the focus of an item subscription, the
\* registration, the focus dispatch and the init frame.
onMessageRead(t, ok) ==
  /\ t.kind = "msg" /\ t.pc = "read"
  /\ UNCHANGED <<app, emitted, mode, sock, bound, clients, accountability, expiresAt, authTimer, grace,
                 received, nEvents, hsFirst>>
  /\ IF ~ok
     THEN /\ sent' = send(sent, sock, t.client, subscribeError("FORBIDDEN", t.sub.uid))
          /\ Commit([Reg EXCEPT !.tasks = @ (-) SetToBag({t})])
     ELSE LET R0 == [Reg EXCEPT !.tasks = @ (-) SetToBag({t})]
              R1 == IF t.sub.item # Null
                    THEN addFocus(R0, accountability, t.client, t.sub.collection, t.sub.item)
                    ELSE R0
              registered == [t.sub EXCEPT !.seq = R1.nextSeq]
              R2 == dispatch(subscribe(R1, t.sub), accountability, t.sub.collection,
                             "focus", 0)
          IN /\ Commit(R2)
             /\ sent' = IF ~t.sub.status \/ t.sub.item = Null
                           \/ t.sub.collection # "directus_users"
                        THEN send(sent, sock, t.client, subscriptionFrame("init", registered, 0))
                        ELSE sent

\* ItemsHandler.onMessage resumes from getSchema.  The listener of the
\* constructor does not await onMessage, so its try/catch sees no rejection:
\* when getSchema throws, the invocation ends and nothing is sent.
itemsSchema(t, ok) ==
  /\ t.kind = "msg" /\ t.pc = "items_schema"
  /\ UNCHANGED <<app, emitted, mode, sock, bound, clients, accountability, expiresAt, authTimer, grace,
                 subscriptions, keys, onlineStatus, userFocus, nextSeq, received, nEvents,
                 focusBy, hsFirst>>
  /\ IF ~ok
     THEN /\ tasks' = tasks (-) SetToBag({t})
          /\ UNCHANGED <<sent>>
     ELSE IF t.msg.action \notin {"create", "read", "update", "delete"}
     THEN /\ tasks' = tasks (-) SetToBag({t})
          /\ sent' = send(sent, sock, t.client, itemsError("invalid action", t.msg.uid))
     ELSE /\ tasks' = (tasks (-) SetToBag({t})) (+)
                         SetToBag({[t EXCEPT !.pc = "items_service"]})
          /\ UNCHANGED <<sent>>

\* ItemsHandler.onMessage resumes from the calls of ItemsService and
\* MetaService: the items frame, or, when one of them throws, nothing.
itemsService(t, ok) ==
  /\ t.kind = "msg" /\ t.pc = "items_service"
  /\ tasks' = tasks (-) SetToBag({t})
  /\ sent' = IF ok THEN send(sent, sock, t.client, itemsFrame(t.msg.uid)) ELSE sent
  /\ UNCHANGED <<app, emitted, mode, sock, bound, clients, accountability, expiresAt, authTimer, grace,
                 subscriptions, keys, onlineStatus, userFocus, nextSeq, received, nEvents,
                 focusBy, hsFirst>>

\* dispatch resumes from refreshAccountability and stores the result on the
\* client.
dispatchRefreshed(t) ==
  /\ t.kind = "disp" /\ t.pc = "refresh"
  /\ accountability' = [accountability EXCEPT ![t.client] = refreshAccountability(t.acc)]
  /\ tasks' = (tasks (-) SetToBag({t})) (+)
                SetToBag({[t EXCEPT !.pc = "read", !.acc = accountability'[t.client]]})
  /\ UNCHANGED <<app, emitted, mode, sock, bound, clients, expiresAt, authTimer, grace, subscriptions,
                 keys, onlineStatus, userFocus, sent, nextSeq, received, nEvents, focusBy,
                 hsFirst>>

\* dispatch whose catch tears the subscription down and leaves the loop.
dispatchReadTearsDown(t, ok) ==
  /\ t.kind = "disp" /\ t.pc = "read"
  /\ sent' = send(sent, sock, t.client,
                  IF ok THEN subscriptionFrame(t.action, t.sub, t.ev)
                  ELSE dispatchError(t.sub, t.ev))
  /\ tasks' = (tasks (-) SetToBag({t})) (+)
                (IF ok THEN SetToBag(loopFrom(subscriptions, accountability, t.collection,
                                              t.action, t.ev, t.sub.seq))
                 ELSE EmptyBag)
  /\ subscriptions' = IF ok THEN subscriptions ELSE subscriptions \ {t.sub}
  /\ UNCHANGED <<app, emitted, mode, sock, bound, clients, accountability, expiresAt, authTimer, grace,
                 keys, onlineStatus, userFocus, nextSeq, received, nEvents,
                 focusBy, hsFirst>>

\* dispatch resumes from getSchema and the read of the subscription: the
\* subscription frame, or the error frame of the catch; then the loop goes on
\* to its next await.
dispatchRead(t, ok) ==
  /\ t.kind = "disp" /\ t.pc = "read"
  /\ sent' = send(sent, sock, t.client,
                  IF ok THEN subscriptionFrame(t.action, t.sub, t.ev)
                  ELSE dispatchError(t.sub, t.ev))
  /\ tasks' = (tasks (-) SetToBag({t})) (+)
                SetToBag(loopFrom(subscriptions, accountability, t.collection, t.action,
                                  t.ev, t.sub.seq))
  /\ UNCHANGED <<app, emitted, mode, sock, bound, clients, accountability, expiresAt, authTimer, grace,
                 subscriptions, keys, onlineStatus, userFocus, nextSeq, received, nEvents,
                 focusBy, hsFirst>>

\* bindModules: a <module>.create | update | delete event of the data service.
bindAction(collection, action) ==
  /\ nEvents < MaxEvents
  /\ nEvents' = nEvents + 1
  /\ Commit(dispatch(Reg, accountability, collection, action, nEvents'))
  /\ emitted' = Append(emitted, [collection |-> collection, action |-> action,
                                  registered |-> Bucket(subscriptions, collection)])
  /\ UNCHANGED <<app, mode, sock, bound, clients, accountability, expiresAt, authTimer, grace,
                 sent, received, hsFirst>>

\* The handlers of a socket's 'close' (or 'error') event: createClient's, then
\* bindEvents' websocket.close (websocket.error).
closeHandlers(c) ==
  IF c \in bound
  THEN /\ authTimer' = Null
       /\ clients' = clients \ {c}
       /\ Commit(removeFocus(unsubscribe(userOffline(Reg, accountability, c),
                                         accountability, c, Null),
                             accountability, c))
  ELSE UNCHANGED <<authTimer, clients, subscriptions, keys, tasks, nextSeq, userFocus,
                   focusBy, onlineStatus>>

\* The socket closes.
onClose(c) ==
  /\ sock[c] \in {"open", "errored"}
  /\ sock' = [sock EXCEPT ![c] = "closed"]
  /\ closeHandlers(c)
  /\ UNCHANGED <<app, emitted, mode, bound, accountability, expiresAt, grace, sent, received, nEvents,
                 hsFirst>>

\* The socket fails: 'error' is emitted, and 'close' follows.
onError(c) ==
  /\ sock[c] = "open"
  /\ sock' = [sock EXCEPT ![c] = "errored"]
  /\ closeHandlers(c)
  /\ UNCHANGED <<app, emitted, mode, bound, accountability, expiresAt, grace, sent, received, nEvents,
                 hsFirst>>

\* The callback of the expiry timer: the epoch is cleared, TOKEN_EXPIRED is
\* sent and waitForMessageType(client, 'AUTH', timeout) starts.
authTimerFires ==
  /\ authTimer # Null
  /\ accountability' = [accountability EXCEPT ![authTimer] = NullAcc]
  /\ expiresAt' = [expiresAt EXCEPT ![authTimer] = Null]
  /\ sent' = send(sent, sock, authTimer, authenticationError("TOKEN_EXPIRED"))
  /\ grace' = grace \cup {authTimer}
  /\ authTimer' = Null
  /\ UNCHANGED <<app, emitted, mode, sock, bound, clients, subscriptions, keys, onlineStatus, userFocus,
                 tasks, nextSeq, received, nEvents, focusBy, hsFirst>>

\* The timer of waitForMessageType fires: reject() passes no message, and the
\* catch callback of setTokenExpireTimer throws on msg['uid'] before it sends
\* or closes anything.
waitForMessageTypeTimeout(c) ==
  /\ c \in grace
  /\ grace' = grace \ {c}
  /\ UNCHANGED <<app, emitted, mode, sock, bound, clients, accountability, expiresAt, authTimer,
                 subscriptions, keys, onlineStatus, userFocus, tasks, sent, nextSeq,
                 received, nEvents, focusBy, hsFirst>>

\* ---------------------------------------------------------------- the app
\* this.ws.send(...): a WebSocket that is still connecting throws, and so does
\* the call on the null of a closed module socket.
wsSendThrows == ws \in {"connecting", "null"}

\* The first frame sent on the socket, after a frame of the given type is sent.
sentFirst(type) == IF firstSent = "none" THEN type ELSE firstSent

\* The parts of the app state a handler leaves alone.
session == <<authenticated, connectCallbacks, disconnectCallbacks, connectCalls, notified,
             authUid, authReplied>>
supervisor == <<sockets, reconnectTimers, opened>>

\* The readyState of this.ws of a WebSocketClient: the constructor stored the
\* socket it was given, which the module has replaced ("stale": closed) or
\* still holds, and getWebSocket() on a null module socket stored null.
thisWs(client, moduleWs) ==
  CASE client = "current" -> (IF moduleWs = "null" THEN "closed" ELSE moduleWs)
    [] client = "stale" -> "closed"
    [] OTHER -> "null"

\* ws.onopen: authenticate(client) reads the Authorization header, which
\* throws when the app holds no token; else it sets authenticated and calls
\* client.send('HANDSHAKE').  send() registers its callback, resolves its
\* promise with { status: 'ok' } in the executor, arms its timer and sends the
\* frame; authenticate resumes with that response and, its status being
\* 'ok', calls the connect callbacks.
onopen(hasToken) ==
  /\ ws = "connecting"
  /\ hasToken => uidCounter < MaxUids
  /\ ws' = "open"
  /\ IF hasToken
     THEN /\ uidCounter' = uidCounter + 1
          /\ onMessageCallbacks' = [onMessageCallbacks EXCEPT ![uidCounter] = "send"]
          /\ promises' = [promises EXCEPT ![uidCounter] = Resolved(0)]
          /\ timers' = [timers EXCEPT ![uidCounter] = "armed"]
          /\ authenticated' = TRUE
          /\ authUid' = uidCounter
          /\ firstSent' = sentFirst("HANDSHAKE")
          /\ connectCalls' = IF connectCallbacks
                             THEN connectCalls \cup
                                    {[ws |-> ws', replied |-> FALSE, by |-> "authenticate",
                                      reconnected |-> opened > 1,
                                      thisWs |-> thisWs(clientWs, ws')]}
                             ELSE connectCalls
     ELSE /\ authUid' = -1
          /\ UNCHANGED <<uidCounter, onMessageCallbacks, promises, timers, authenticated,
                         firstSent, connectCalls>>
  /\ authReplied' = FALSE
  /\ UNCHANGED <<server, returned, delivered, connectCallbacks, disconnectCallbacks,
                 notified, supervisor, clientWs>>

\* getWebSocket().onConnect(callback), as useItems calls it: the client is
\* built on the socket the module holds, the callback is registered, and it is
\* called at once with that client when authenticated is set.
onConnect ==
  /\ ~connectCallbacks
  /\ connectCallbacks' = TRUE
  /\ clientWs' = IF ws = "null" THEN "null" ELSE "current"
  /\ connectCalls' = IF authenticated
                     THEN connectCalls \cup
                            {[ws |-> ws, replied |-> authReplied, by |-> "onConnect",
                              reconnected |-> opened > 1,
                              thisWs |-> thisWs(clientWs', ws)]}
                     ELSE connectCalls
  /\ UNCHANGED <<server, ws, uidCounter, onMessageCallbacks, promises, returned, delivered,
                 timers, authenticated, disconnectCallbacks, notified, authUid, authReplied,
                 supervisor, firstSent>>

\* WebSocketClient.onDisconnect(callback)
onDisconnect ==
  /\ ~disconnectCallbacks
  /\ disconnectCallbacks' = TRUE
  /\ UNCHANGED <<server, ws, uidCounter, onMessageCallbacks, promises, returned, delivered,
                 timers, authenticated, connectCallbacks, connectCalls, notified, authUid,
                 authReplied, supervisor, firstSent, clientWs>>

\* WebSocketClient.subscribe(options, callback): the uid is taken and the
\* callback stored before ws.send, which throws unless the socket is open.
clientSubscribe ==
  /\ uidCounter < MaxUids
  /\ uidCounter' = uidCounter + 1
  /\ onMessageCallbacks' = [onMessageCallbacks EXCEPT ![uidCounter] = "subscription"]
  /\ returned' = IF wsSendThrows THEN returned ELSE returned \cup {uidCounter}
  /\ firstSent' = IF wsSendThrows THEN firstSent ELSE sentFirst("SUBSCRIBE")
  /\ UNCHANGED <<server, ws, promises, delivered, timers, session, supervisor, clientWs>>

\* WebSocketClient.unsubscribe(uid)
clientUnsubscribe(uid) ==
  /\ uid \in returned
  /\ onMessageCallbacks[uid] = "subscription"
  /\ onMessageCallbacks' = [onMessageCallbacks EXCEPT ![uid] = "none"]
  /\ firstSent' = IF wsSendThrows THEN firstSent ELSE sentFirst("UNSUBSCRIBE")
  /\ UNCHANGED <<server, ws, uidCounter, promises, returned, delivered, timers, session,
                 supervisor, clientWs>>

\* WebSocketClient.send(type, data): the executor stores the callback, calls
\* resolve({ status: 'ok' }), arms the timer and then sends the frame.
clientSend ==
  /\ uidCounter < MaxUids
  /\ uidCounter' = uidCounter + 1
  /\ onMessageCallbacks' = [onMessageCallbacks EXCEPT ![uidCounter] = "send"]
  /\ promises' = [promises EXCEPT ![uidCounter] = Resolved(0)]
  /\ timers' = [timers EXCEPT ![uidCounter] = "armed"]
  /\ firstSent' = IF wsSendThrows THEN firstSent ELSE sentFirst("PING")
  /\ UNCHANGED <<server, ws, returned, delivered, session, supervisor, clientWs>>

\* The timer of send() fires: its callback has an empty body.
sendTimeout(uid) ==
  /\ timers[uid] = "armed"
  /\ timers' = [timers EXCEPT ![uid] = "fired"]
  /\ UNCHANGED <<server, ws, uidCounter, onMessageCallbacks, promises, returned, delivered,
                 session, supervisor, firstSent, clientWs>>

\* ws.onmessage for a frame with the given uid (hasUid = FALSE: a frame
\* without uid): if (uid) looks the callback up and calls it.  The callback
\* of send() removes its entry and calls resolve(data), which has no effect
\* on a promise that is resolved already.
onmessage(hasUid, uid) ==
  /\ ws = "open"
  /\ Len(delivered) < MaxInbound
  /\ LET callback == IF ~hasUid \/ uid = 0 THEN "none" ELSE onMessageCallbacks[uid]
     IN /\ delivered' = Append(delivered,
                               [hasUid |-> hasUid, uid |-> uid,
                                registered |-> IF hasUid THEN onMessageCallbacks[uid]
                                               ELSE "none",
                                calls |-> IF callback = "none" THEN 0 ELSE 1])
        /\ onMessageCallbacks' = IF callback = "send"
                                 THEN [onMessageCallbacks EXCEPT ![uid] = "none"]
                                 ELSE onMessageCallbacks
        /\ promises' = IF callback = "send" /\ promises[uid].state = "pending"
                       THEN [promises EXCEPT ![uid] = Resolved(Len(delivered'))]
                       ELSE promises
  /\ authReplied' = (authReplied \/ (hasUid /\ uid = authUid))
  /\ UNCHANGED <<server, ws, uidCounter, returned, timers, authenticated, connectCallbacks,
                 disconnectCallbacks, connectCalls, notified, authUid, supervisor, firstSent,
                 clientWs>>

\* ws.onerror: ws?.close() starts the closing handshake of the socket.
onerror ==
  /\ ws \in {"connecting", "open"}
  /\ ws' = "closing"
  /\ UNCHANGED <<server, uidCounter, onMessageCallbacks, promises, returned, delivered,
                 timers, session, supervisor, firstSent, clientWs>>

\* ws.onclose with no reconnect timer set.
oncloseForgets ==
  /\ ws \in {"connecting", "open", "closing"}
  /\ ws' = "null"
  /\ sockets' = sockets - 1
  /\ notified' = IF disconnectCallbacks THEN 1 ELSE 0
  /\ UNCHANGED <<server, uidCounter, onMessageCallbacks, promises, returned, delivered,
                 timers, authenticated, connectCallbacks, disconnectCallbacks, connectCalls,
                 authUid, authReplied, reconnectTimers, opened, firstSent, clientWs>>

\* ws.onclose: ws = null, the disconnect callbacks are called, and a timer is
\* set that calls connectWebSocket().
onclose ==
  /\ ws \in {"connecting", "open", "closing"}
  /\ ws' = "null"
  /\ sockets' = sockets - 1
  /\ notified' = IF disconnectCallbacks THEN 1 ELSE 0
  /\ reconnectTimers' = reconnectTimers + 1
  /\ UNCHANGED <<server, uidCounter, onMessageCallbacks, promises, returned, delivered,
                 timers, authenticated, connectCallbacks, disconnectCallbacks, connectCalls,
                 authUid, authReplied, opened, firstSent, clientWs>>

\* The reconnect timer fires: connectWebSocket() returns when the module
\* holds a socket, and else creates one; a client built on the socket before
\* keeps that one.
connectWebSocket ==
  /\ reconnectTimers > 0
  /\ reconnectTimers' = reconnectTimers - 1
  /\ IF ws # "null"
     THEN UNCHANGED <<ws, sockets, opened, firstSent, clientWs>>
     ELSE /\ ws' = "connecting"
          /\ sockets' = sockets + 1
          /\ opened' = IF opened < MaxSockets THEN opened + 1 ELSE opened
          /\ firstSent' = "none"
          /\ clientWs' = IF clientWs = "current" THEN "stale" ELSE clientWs
  /\ UNCHANGED <<server, uidCounter, onMessageCallbacks, promises, returned, delivered,
                 timers, session>>

\* ------------------------------------------------------- specifications
Tokens == {"tokA", "tokB", "tokP", "bad"}
Actions == {"create", "update"}

InitPublic == Init /\ mode = "public"
InitStrict == Init /\ mode = "strict"
InitHandshake == Init /\ mode = "handshake"

\* The registry: public connections that subscribe, resubscribe under one uid,
\* subscribe without a uid and unsubscribe.
RegistryFrames ==
  {SubscribeFrame("articles", Null, FALSE, "a1", "q1"),
   SubscribeFrame("articles", Null, FALSE, "a1", "q2"),
   SubscribeFrame("articles", Null, TRUE, Null, "q1"),
   UnsubscribeFrame("a1"), UnsubscribeFrame(Null)}

Next ==
  \/ \E c \in Clients : handleUpgrade(c, Null)
  \/ \E c \in Clients, data \in RegistryFrames : onMessageFrame(c, data)
  \/ \E t \in BagToSet(tasks) : parsedMessage(t)
  \/ \E t \in BagToSet(tasks) : onMessageSchema(t)
  \/ \E t \in BagToSet(tasks), ok \in BOOLEAN : onMessageRead(t, ok)
  \/ \E t \in BagToSet(tasks) : dispatchRefreshed(t)
  \/ \E t \in BagToSet(tasks), ok \in BOOLEAN : dispatchRead(t, ok)
  \/ \E c \in Clients : onClose(c)

Spec == InitPublic /\ [][Next]_vars

\* The dispatcher: public connections with subscriptions, and the events of
\* the data service.
DispatchFrames ==
  {SubscribeFrame("articles", Null, FALSE, "a1", "q1"), UnsubscribeFrame("a1")}

NextDispatch ==
  \/ \E c \in Clients : handleUpgrade(c, Null)
  \/ \E c \in Clients, data \in DispatchFrames : onMessageFrame(c, data)
  \/ \E t \in BagToSet(tasks) : parsedMessage(t)
  \/ \E t \in BagToSet(tasks) : onMessageSchema(t)
  \/ \E t \in BagToSet(tasks), ok \in BOOLEAN : onMessageRead(t, ok)
  \/ \E t \in BagToSet(tasks) : dispatchRefreshed(t)
  \/ \E t \in BagToSet(tasks), ok \in BOOLEAN : dispatchRead(t, ok)
  \/ \E collection \in Collections, action \in Actions : bindAction(collection, action)
  \/ \E c \in Clients : onClose(c)

SpecDispatch == InitPublic /\ [][NextDispatch]_vars

\* Presence and focus: strict mode, users with expiring and non-expiring
\* tokens, inline AUTH, item subscriptions and FOCUS messages.
PresenceFrames ==
  {SubscribeFrame("articles", "i1", FALSE, "a1", "q1"), FocusFrame("articles", "i1"),
   AuthFrame("auth", "tokB"), AuthFrame("AUTH", "bad")}

NextPresence ==
  \/ \E c \in Clients, token \in Tokens \cup {Null} : handleUpgrade(c, token)
  \/ \E c \in Clients, data \in PresenceFrames : onMessageFrame(c, data)
  \/ \E t \in BagToSet(tasks) : messageAuth(t)
  \/ \E t \in BagToSet(tasks) : parsedMessage(t)
  \/ \E t \in BagToSet(tasks) : onMessageSchema(t)
  \/ \E t \in BagToSet(tasks), ok \in BOOLEAN : onMessageRead(t, ok)
  \/ \E c \in Clients : onClose(c)
  \/ \E c \in Clients : onError(c)
  \/ authTimerFires
  \/ \E c \in Clients : waitForMessageTypeTimeout(c)

SpecPresence == InitStrict /\ [][NextPresence]_vars

\* The first frame of a subscription: authenticated users subscribing with
\* every combination of collection, item and status.
InitFrames ==
  {SubscribeFrame(collection, item, status, "a1", "q1") :
     collection \in Collections, item \in {Null, "i1"}, status \in BOOLEAN}

NextInitFrame ==
  \/ \E c \in Clients : handleUpgrade(c, "tokA")
  \/ \E c \in Clients, data \in InitFrames : onMessageFrame(c, data)
  \/ \E t \in BagToSet(tasks) : parsedMessage(t)
  \/ \E t \in BagToSet(tasks) : onMessageSchema(t)
  \/ \E t \in BagToSet(tasks), ok \in BOOLEAN : onMessageRead(t, ok)
  \/ \E t \in BagToSet(tasks) : dispatchRefreshed(t)
  \/ \E t \in BagToSet(tasks), ok \in BOOLEAN : dispatchRead(t, ok)

SpecInitFrame == InitStrict /\ [][NextInitFrame]_vars

\* The handshake: the first frame of a socket, its timeout, and the client
\* the handshake creates.
HandshakeFrames ==
  {Garbage, AuthFrame("auth", "tokA"), AuthFrame("AUTH", "tokB"), AuthFrame("AUTH", "bad"),
   AuthFrame("AUTH", Null), SubscribeFrame("articles", Null, FALSE, "a1", "q1"),
   Frame(" subscribe", "tokA", "articles", Null, FALSE, "a1", "q1")}

NextHandshake ==
  \/ \E c \in Clients : handleUpgrade(c, Null)
  \/ \E c \in Clients, data \in HandshakeFrames : onMessageFrame(c, data)
  \/ \E t \in BagToSet(tasks) : handshakeTimeout(t)
  \/ \E t \in BagToSet(tasks) : handleHandshakeUpgrade(t)
  \/ \E t \in BagToSet(tasks) : messageAuth(t)
  \/ \E t \in BagToSet(tasks) : parsedMessage(t)
  \/ \E t \in BagToSet(tasks) : onMessageSchema(t)
  \/ \E t \in BagToSet(tasks), ok \in BOOLEAN : onMessageRead(t, ok)
  \/ \E c \in Clients : onClose(c)
  \/ authTimerFires
  \/ \E c \in Clients : waitForMessageTypeTimeout(c)

SpecHandshake == InitHandshake /\ [][NextHandshake]_vars

\* A session in each authentication mode: upgrades with every kind of
\* token, unparseable frames, inline AUTH, token expiry and the grace period.
SessionFrames ==
  {Garbage, AuthFrame("auth", "tokA"), AuthFrame("AUTH", "bad"),
   FocusFrame("articles", "i1")}

NextSession ==
  \/ \E c \in Clients, token \in Tokens \cup {Null} : handleUpgrade(c, token)
  \/ \E c \in Clients, data \in SessionFrames : onMessageFrame(c, data)
  \/ \E t \in BagToSet(tasks) : handshakeTimeout(t)
  \/ \E t \in BagToSet(tasks) : handleHandshakeUpgrade(t)
  \/ \E t \in BagToSet(tasks) : messageAuth(t)
  \/ \E t \in BagToSet(tasks) : parsedMessage(t)
  \/ \E c \in Clients : onClose(c)
  \/ authTimerFires
  \/ \E c \in Clients : waitForMessageTypeTimeout(c)

SpecSession == Init /\ [][NextSession]_vars

\* The same session in strict mode alone, for the connections of one user.
StrictTokens == {"tokA", "tokP", "bad", Null}

NextStrict ==
  \/ \E c \in Clients, token \in StrictTokens : handleUpgrade(c, token)
  \/ \E c \in Clients, data \in SessionFrames : onMessageFrame(c, data)
  \/ \E t \in BagToSet(tasks) : messageAuth(t)
  \/ \E t \in BagToSet(tasks) : parsedMessage(t)
  \/ \E c \in Clients : onClose(c)
  \/ authTimerFires
  \/ \E c \in Clients : waitForMessageTypeTimeout(c)

SpecStrict == InitStrict /\ [][NextStrict]_vars

\* SUBSCRIBE messages that fail: a collection the schema of the subscriber
\* does not expose, and reads that throw.
FailingFrames ==
  {SubscribeFrame("directus_settings", "i1", FALSE, "a1", "q1"),
   SubscribeFrame("articles", "i1", FALSE, "a1", "q1"),
   SubscribeFrame("articles", "i2", FALSE, "a2", "q1")}

NextFailing ==
  \/ \E c \in Clients, token \in {"tokA", "tokB"} : handleUpgrade(c, token)
  \/ \E c \in Clients, data \in FailingFrames : onMessageFrame(c, data)
  \/ \E t \in BagToSet(tasks) : parsedMessage(t)
  \/ \E t \in BagToSet(tasks) : onMessageSchema(t)
  \/ \E t \in BagToSet(tasks), ok \in BOOLEAN : onMessageRead(t, ok)

SpecFailing == InitStrict /\ [][NextFailing]_vars

\* Unsubscribing: users whose first SUBSCRIBE frames may overlap, and whose
\* later frames, the UNSUBSCRIBE frames among them, are sent in turn.
OverlappingFrames ==
  {SubscribeFrame("articles", "i1", FALSE, "a1", "q1"),
   SubscribeFrame("directus_users", Null, FALSE, "a1", "q1"),
   SubscribeFrame("articles", Null, FALSE, "a2", "q1")}

TurnFrames == OverlappingFrames \cup {UnsubscribeFrame("a1"), UnsubscribeFrame(Null)}

NextUnsubscribe ==
  \/ \E c \in Clients : handleUpgrade(c, "tokA")
  \/ \E c \in Clients, data \in OverlappingFrames : onMessageFrame(c, data)
  \/ \E c \in Clients, data \in TurnFrames : onMessageFrameInTurn(c, data)
  \/ \E t \in BagToSet(tasks) : parsedMessage(t)
  \/ \E t \in BagToSet(tasks) : onMessageSchema(t)
  \/ \E t \in BagToSet(tasks), ok \in BOOLEAN : onMessageRead(t, ok)

SpecUnsubscribe == InitStrict /\ [][NextUnsubscribe]_vars

\* ITEMS messages: with and without a collection, with a valid and an
\* invalid action, and services that throw.
ItemsFrames ==
  {ItemsFrame("articles", "read", "r1"), ItemsFrame("articles", "purge", "r2"),
   ItemsFrame(Null, "read", "r3")}

NextItems ==
  \/ \E c \in Clients : handleUpgrade(c, Null)
  \/ \E c \in Clients, data \in ItemsFrames : onMessageFrame(c, data)
  \/ \E t \in BagToSet(tasks) : parsedMessage(t)
  \/ \E t \in BagToSet(tasks), ok \in BOOLEAN : itemsSchema(t, ok)
  \/ \E t \in BagToSet(tasks), ok \in BOOLEAN : itemsService(t, ok)

SpecItems == InitPublic /\ [][NextItems]_vars

\* The app: its socket, the uids its counter issues, subscriptions and
\* requests, and the frames that come in.
NextApp ==
  \/ \E hasToken \in BOOLEAN : onopen(hasToken)
  \/ clientSubscribe
  \/ \E uid \in Uids : clientUnsubscribe(uid)
  \/ clientSend
  \/ \E hasUid \in BOOLEAN, uid \in Uids : onmessage(hasUid, uid)
  \/ onclose
  \/ connectWebSocket

SpecApp == InitPublic /\ [][NextApp]_vars

\* Requests of the app: send() calls, their timers and their replies.
NextRequests ==
  \/ \E hasToken \in BOOLEAN : onopen(hasToken)
  \/ clientSend
  \/ \E uid \in Uids : sendTimeout(uid)
  \/ \E hasUid \in BOOLEAN, uid \in Uids : onmessage(hasUid, uid)
  \/ onclose
  \/ connectWebSocket

SpecRequests == InitPublic /\ [][NextRequests]_vars

\* The connect and disconnect callbacks of the app, over sockets that open,
\* fail and close.
NextConnect ==
  \/ \E hasToken \in BOOLEAN : onopen(hasToken)
  \/ onConnect
  \/ onDisconnect
  \/ \E hasUid \in BOOLEAN, uid \in Uids : onmessage(hasUid, uid)
  \/ onerror
  \/ onclose
  \/ connectWebSocket

SpecConnect == InitPublic /\ [][NextConnect]_vars

\* The supervisor of the app's socket.  The reconnect timer is a setTimeout:
\* once set it fires.
NextSupervisor ==
  \/ \E hasToken \in BOOLEAN : onopen(hasToken)
  \/ clientSubscribe
  \/ \E uid \in Uids : clientUnsubscribe(uid)
  \/ onerror
  \/ onclose
  \/ connectWebSocket

SpecSupervisor == InitPublic /\ [][NextSupervisor]_vars /\ WF_vars(connectWebSocket)

\* Delivery of the data-mutation events: users with subscriptions on two
\* collections, who subscribe and unsubscribe while dispatches are under way.
DeliveryFrames ==
  {SubscribeFrame("articles", Null, FALSE, "a1", "q1"),
   SubscribeFrame("directus_users", "i1", FALSE, "a2", "q1"),
   UnsubscribeFrame(Null)}

NextDelivery ==
  \/ \E c \in Clients : handleUpgrade(c, "tokA")
  \/ \E c \in Clients, data \in DeliveryFrames : onMessageFrameBetween(c, data)
  \/ \E t \in BagToSet(tasks) : parsedMessage(t)
  \/ \E t \in BagToSet(tasks) : onMessageSchema(t)
  \/ \E t \in BagToSet(tasks) : onMessageRead(t, TRUE)
  \/ \E t \in BagToSet(tasks) : dispatchRefreshed(t)
  \/ \E t \in BagToSet(tasks), ok \in BOOLEAN : dispatchRead(t, ok)
  \/ \E collection \in Collections : bindAction(collection, "update")

SpecDelivery == InitStrict /\ [][NextDelivery]_vars

\* ------------------------------------------------------------ properties
\* The frames of a socket's log that belong to one Subscription object.
framesOfSub(c, seq) ==
  {i \in 1..Len(sent[c]) :
     sent[c][i].frame.type = "subscription" /\ sent[c][i].frame.sub = seq}

initFrames(c, seq) == {i \in framesOfSub(c, seq) : sent[c][i].frame.event = "init"}

\* The message invocations of a socket that have not run to their end.
inFlight(c) ==
  {t \in BagToSet(tasks) : t.client = c /\ t.kind \in {"msg", "auth"}}

\* C1: for every client and every uid, the registry holds at most one
\* subscription of that client with that uid.
C1_UidUniquePerClient ==
  \A s1, s2 \in subscriptions :
    (s1.client = s2.client /\ s1.uid = s2.uid /\ s1.uid # Null) => s1 = s2

\* C2: the dispatcher never calls send on a socket that is not OPEN: every
\* frame a dispatch sent was sent while the socket of its client was open.
C2_DispatchSendsOnlyToOpen ==
  \A c \in Clients : \A i \in 1..Len(sent[c]) :
    (sent[c][i].frame.type = "subscription" /\ sent[c][i].frame.event # "init")
      => sent[c][i].open

\* C3: whenever a live client has accountability.user = u, u is in
\* onlineStatus.
C3_LiveUserIsOnline ==
  \A c \in clients :
    accountability[c].user # Null => accountability[c].user \in onlineStatus

\* C4: whenever u is in onlineStatus, some live client has
\* accountability.user = u.
C4_OnlineUserIsLive ==
  \A u \in onlineStatus : \E c \in clients : accountability[c].user = u

\* C5: once the close event of a client has been handled, and no message of
\* that client is still being handled, the registry holds no subscription of
\* that client and the focus map holds no entry that client recorded.
C5_ClosedClientLeavesNothing ==
  \A c \in bound :
    (sock[c] = "closed" /\ inFlight(c) = {}) =>
      /\ \A s \in subscriptions : s.client # c
      /\ \A u \in Users : focusBy[u] # c

\* C6: every registered subscription has received exactly one init frame, and
\* that frame precedes every other subscription frame of the subscription.
C6_InitExactlyOnceAndFirst ==
  \A s \in subscriptions :
    /\ Cardinality(initFrames(s.client, s.seq)) = 1
    /\ \A j \in framesOfSub(s.client, s.seq) \ initFrames(s.client, s.seq) :
         \E i \in initFrames(s.client, s.seq) : i < j

\* C7: when a client has sent SUBSCRIBE(uid a1, q1) and then SUBSCRIBE(uid a1,
\* q2), and both have been handled with their init frames sent, the registry
\* holds exactly one subscription of that client with uid a1, carrying q2.
C7_ResubscribeReplaces ==
  \A c \in Clients :
    ( /\ received[c] = <<SubscribeFrame("articles", Null, FALSE, "a1", "q1"),
                         SubscribeFrame("articles", Null, FALSE, "a1", "q2")>>
      /\ inFlight(c) = {}
      /\ Cardinality({i \in 1..Len(sent[c]) : sent[c][i].frame.event = "init"}) = 2 )
    => \E s \in subscriptions :
         /\ {x \in subscriptions : x.client = c /\ x.uid = "a1"} = {s}
         /\ s.query = "q2"

\* C8: the messages of one connection are processed strictly in receive
\* order: the processing of a message does not begin before the handling of
\* the earlier messages of the connection has completed.
C8_OneMessageAtATime ==
  \A c \in Clients : Cardinality(inFlight(c)) <= 1

\* C9: the subscription frames of two data-mutation events reach a
\* subscription in the order in which the events were emitted.
C9_EventOrderPreserved ==
  \A c \in Clients : \A i, j \in 1..Len(sent[c]) :
    ( /\ i < j
      /\ sent[c][i].frame.type = "subscription" /\ sent[c][j].frame.type = "subscription"
      /\ sent[c][i].frame.sub = sent[c][j].frame.sub
      /\ sent[c][i].frame.ev > 0 /\ sent[c][j].frame.ev > 0 )
    => sent[c][i].frame.ev < sent[c][j].frame.ev

\* The handshake of socket c has ended without a client.
handshakeFailed(c) ==
  /\ hsFirst[c].how # "none"
  /\ \A t \in BagToSet(tasks) : ~(t.kind = "hs" /\ t.client = c)
  /\ c \notin bound

\* C10: in handshake mode a client is created only if the first frame is an
\* AUTH frame whose authentication succeeds; after a timeout, a first frame
\* that is unparseable or not AUTH, or a failed authentication, the
\* AUTHENTICATION_FAILED error frame has been sent, the socket is closed and
\* no client exists.
C10_HandshakeAdmission ==
  \A c \in Clients :
    /\ (c \in bound \/ c \in clients) =>
         /\ hsFirst[c].how = "frame"
         /\ hsFirst[c].data.json
         /\ hsFirst[c].data.type \in {"auth", "AUTH"}
         /\ hsFirst[c].data.access_token \in {"tokA", "tokB"}
         /\ sent[c][1].frame = authenticationSuccess
    /\ handshakeFailed(c) =>
         /\ sock[c] = "closed"
         /\ c \notin clients
         /\ Len(sent[c]) = 1
         /\ sent[c][1].frame = errorMessage("AUTHENTICATION_FAILED")

\* C11: in strict mode an upgrade whose access_token is missing, does not
\* resolve, or resolves to a null user ends with the socket destroyed, no
\* client created and the live client set and onlineStatus unchanged; every
\* other upgrade creates a client whose user is not null.
C11_StrictUpgrade ==
  [][\A c \in Clients, token \in StrictTokens :
       (mode = "strict" /\ handleUpgrade(c, token)) =>
         IF token \in {Null, "bad", "tokP"}
         THEN /\ sock'[c] = "destroyed"
              /\ c \notin bound' /\ c \notin clients'
              /\ clients' = clients /\ onlineStatus' = onlineStatus
              /\ sent'[c] = <<>>
         ELSE /\ sock'[c] = "open"
              /\ c \in clients'
              /\ accountability'[c].user # Null]_vars

\* One upgrade was denied for a token that resolves to a null user or not at
\* all, and another one was accepted.
C11_Witness ==
  \E c, d \in Clients :
    /\ sock[c] = "destroyed" /\ c \notin clients
    /\ d \in clients /\ accountability[d].user # Null

\* The last frame handed to the socket of c is the TOKEN_EXPIRED error.
lastIsTokenExpired(c) ==
  /\ sent[c] # <<>>
  /\ sent[c][Len(sent[c])].frame = authenticationError("TOKEN_EXPIRED")

\* C12: when the expiry timer of a client has fired and the grace period has
\* run out without an AUTH frame, the connection is closed if the mode is
\* strict or handshake.
C12_GraceTimeoutCloses ==
  \A c \in bound :
    ( /\ mode # "public"
      /\ lastIsTokenExpired(c)
      /\ c \notin grace
      /\ inFlight(c) = {} )
    => sock[c] # "open"

\* C13: an inline AUTH that succeeds replaces the accountability and the
\* expiresAt of the client with the resolved ones, re-arms the expiry timer
\* for the new expiresAt and answers with the auth success frame; one that
\* fails sets both to null, sends an auth error frame, and leaves the socket
\* and the live client set as they were.
C13_InlineAuth ==
  [][\A t \in BagToSet(tasks) :
       messageAuth(t) =>
         IF t.msg.access_token \in {"tokA", "tokB"}
         THEN /\ accountability'[t.client] = getAccountabilityForToken(t.msg.access_token)
              /\ expiresAt'[t.client] = getExpiresAtForToken(t.msg.access_token)
              /\ authTimer' = IF getExpiresAtForToken(t.msg.access_token) = Null
                              THEN Null ELSE t.client
              /\ sent'[t.client] =
                   Append(sent[t.client], [frame |-> authenticationSuccess,
                                           open |-> sock[t.client] = "open"])
              /\ sock' = sock /\ clients' = clients
         ELSE /\ accountability'[t.client] = NullAcc
              /\ expiresAt'[t.client] = Null
              /\ Len(sent'[t.client]) = Len(sent[t.client]) + 1
              /\ sent'[t.client][Len(sent'[t.client])].frame.type = "auth"
              /\ sent'[t.client][Len(sent'[t.client])].frame.status = "error"
              /\ sock' = sock /\ clients' = clients]_vars

\* A live client on an open socket has been answered an inline AUTH with
\* success after its token had expired, and a client has been answered one
\* with failure.
C13_Witness ==
  /\ \E c \in clients :
       /\ sock[c] = "open" /\ authTimer = c
       /\ \E i, j \in 1..Len(sent[c]) :
            /\ i < j
            /\ sent[c][i].frame = authenticationError("TOKEN_EXPIRED")
            /\ sent[c][j].frame = authenticationSuccess
  /\ \E d \in clients :
       /\ sock[d] = "open" /\ ~accountability[d].set
       /\ sent[d][Len(sent[d])].frame = authenticationError("AUTHENTICATION_FAILED")

\* C14: a frame a client sends that cannot be parsed is answered with exactly
\* one INVALID_PAYLOAD error frame to that client; no message handling is
\* started, and the epochs, subscriptions, focus map, sockets and live client
\* set are unchanged.
C14_InvalidPayload ==
  [][\A c \in Clients, data \in SessionFrames :
       (c \in bound /\ ~parses(data) /\ onMessageFrame(c, data)) =>
         /\ sent' = [sent EXCEPT ![c] = Append(@, [frame |-> errorMessage("INVALID_PAYLOAD"),
                                                     open |-> TRUE])]
         /\ tasks' = tasks
         /\ accountability' = accountability /\ expiresAt' = expiresAt
         /\ subscriptions' = subscriptions /\ userFocus' = userFocus
         /\ onlineStatus' = onlineStatus
         /\ sock' = sock /\ clients' = clients]_vars

\* A client that recorded a focus sent an unparseable frame, was answered
\* INVALID_PAYLOAD, and is still connected with its focus.
C14_Witness ==
  \E c \in clients, u \in Users :
    /\ sock[c] = "open"
    /\ received[c] = <<FocusFrame("articles", "i1"), Garbage>>
    /\ sent[c][Len(sent[c])].frame = errorMessage("INVALID_PAYLOAD")
    /\ accountability[c].user = u /\ userFocus[u].set

\* The error frame the catch of onMessage sends has been appended to the log
\* of c, and the logs of the other sockets are unchanged.
errorFrameSent(c) ==
  /\ Len(sent'[c]) = Len(sent[c]) + 1
  /\ sent'[c][Len(sent'[c])].frame.type = "subscribe"
  /\ sent'[c][Len(sent'[c])].frame.status = "error"
  /\ \A d \in Clients \ {c} : sent'[d] = sent[d]

\* C15: a SUBSCRIBE that fails, on a collection not exposed to a non-admin
\* subscriber or on an initial read that throws, sends an error frame, and
\* leaves the registry and the focus map as they were: no subscription and no
\* focus record of that message.
C15_FailedSubscribe ==
  [][\A t \in BagToSet(tasks) :
       /\ ( /\ onMessageSchema(t)
            /\ ~t.acc.admin
            /\ t.msg.collection \notin {"articles", "directus_users"} ) =>
           /\ errorFrameSent(t.client)
           /\ subscriptions' = subscriptions /\ userFocus' = userFocus
           /\ \A x \in BagToSet(tasks') : x.client = t.client => x.id # t.id
       /\ onMessageRead(t, FALSE) =>
           /\ errorFrameSent(t.client)
           /\ subscriptions' = subscriptions /\ userFocus' = userFocus
           /\ \A x \in BagToSet(tasks') : x.client = t.client => x.id # t.id]_vars

\* Both failures have happened: a subscriber was refused a collection, and
\* the read of an item subscription threw while the focus map was empty.
C15_Witness ==
  /\ \E c \in Clients : \E i \in 1..Len(sent[c]) :
       sent[c][i].frame = subscribeError("INVALID_COLLECTION", "a1")
  /\ \E c \in Clients : \E i \in 1..Len(sent[c]) :
       sent[c][i].frame = subscribeError("FORBIDDEN", "a1")
  /\ subscriptions = {}
  /\ \A u \in Users : ~userFocus[u].set

\* C16: after the UNSUBSCRIBE with uid u of a client that owned at most one
\* subscription with uid u, the client owns no subscription with uid u; after
\* its UNSUBSCRIBE without uid it owns no subscription at all; and the
\* subscriptions of the other clients are unchanged.
C16_UnsubscribeRemovesOwn ==
  [][\A t \in BagToSet(tasks) :
       ( /\ parsedMessage(t) /\ t.msg.type = "UNSUBSCRIBE"
         /\ Cardinality({s \in subscriptions :
                           s.client = t.client /\ s.uid = t.msg.uid}) <= 1 ) =>
         /\ \A s \in subscriptions' :
              s.client = t.client => (t.msg.uid # Null /\ s.uid # t.msg.uid)
         /\ {s \in subscriptions' : s.client # t.client}
              = {s \in subscriptions : s.client # t.client}]_vars

\* C17: a second UNSUBSCRIBE(uid u) of a client, sent directly after its
\* first UNSUBSCRIBE(uid u), leaves the registry, the presence set and the
\* focus map unchanged and sends no frame.
C17_UnsubscribeTwice ==
  [][\A t \in BagToSet(tasks) :
       ( /\ parsedMessage(t)
         /\ t.msg.type = "UNSUBSCRIBE" /\ t.msg.uid # Null
         /\ t.id > 1
         /\ received[t.client][t.id - 1] = UnsubscribeFrame(t.msg.uid)
         /\ \A x \in BagToSet(tasks) : x = t ) =>
         /\ subscriptions' = subscriptions
         /\ onlineStatus' = onlineStatus
         /\ userFocus' = userFocus
         /\ sent' = sent]_vars

\* The ITEMS frames with uid u a socket received whose handling has ended,
\* and the reply frames with uid u handed to the socket.
itemsHandled(c, u) ==
  {k \in 1..Len(received[c]) :
     /\ received[c][k].type = "ITEMS" /\ received[c][k].uid = u
     /\ \A t \in inFlight(c) : t.id # k}

itemsReplies(c, u) ==
  {i \in 1..Len(sent[c]) :
     sent[c][i].frame.type \in {"items", "error"} /\ sent[c][i].frame.uid = u}

\* C18: every ITEMS message whose handling has ended has received exactly one
\* reply frame with its uid, an items frame or an error frame.
C18_ItemsReplyOnce ==
  \A c \in bound : \A u \in {"r1", "r2", "r3"} :
    Cardinality(itemsReplies(c, u)) = Cardinality(itemsHandled(c, u))

\* C19: every inbound frame that carries a uid subscribe() returned, whose
\* callback is still registered, calls that callback exactly once.
C19_SubscriptionCallbackInvoked ==
  \A i \in 1..Len(delivered) :
    ( /\ delivered[i].hasUid /\ delivered[i].uid \in returned
      /\ delivered[i].registered = "subscription" )
      => delivered[i].calls = 1

\* C20: a promise send() returned is resolved only by an inbound frame with
\* the uid of the outbound frame, and with that frame.
C20_SendResolvedByReply ==
  \A uid \in Uids :
    promises[uid].state = "resolved" =>
      /\ promises[uid].frame \in 1..Len(delivered)
      /\ delivered[promises[uid].frame].hasUid
      /\ delivered[promises[uid].frame].uid = uid

\* One socket was admitted by its AUTH frame while another one failed its
\* handshake: by timeout, or by a first frame that is not an accepted AUTH.
C10_Witness ==
  \E c, d \in Clients :
    /\ c \in clients
    /\ handshakeFailed(d)
    /\ hsFirst[d].how = "timeout" \/ hsFirst[d].data.type = " subscribe"

\* C21: when the timer of a request has fired and no inbound frame with the
\* uid of the request has arrived, the promise send() returned is rejected
\* and no pending entry for that uid remains.
C21_TimeoutRejects ==
  \A uid \in Uids :
    ( /\ timers[uid] = "fired"
      /\ \A i \in 1..Len(delivered) : ~(delivered[i].hasUid /\ delivered[i].uid = uid) )
    => /\ promises[uid].state = "rejected"
       /\ onMessageCallbacks[uid] = "none"

\* C22: the connect callbacks are called only while the socket is open and
\* after a frame with the uid of the authentication request of that socket has
\* come in.
C22_ConnectAfterReply ==
  \A call \in connectCalls : call.ws = "open" /\ call.replied

\* C23: the app holds at most one socket at any time, and whenever the socket
\* has closed a new socket is created afterwards.
C23_OneSocketReconnects ==
  /\ [](sockets <= 1)
  /\ ((ws = "null") ~> (ws = "connecting"))

\* The socket closed twice in a row before it opened, and a third socket is
\* open.
C23_Witness ==
  /\ opened = MaxSockets
  /\ ws = "open"
  /\ authUid = 0
  /\ sockets = 1

\* C24: the first frame the app sends on a socket is one the handshake of the
\* server takes for the authentication frame: its parsed type is AUTH.
C24_FirstFrameIsAuth ==
  firstSent # "none" =>
    parseIncomingMessage(AuthFrame(firstSent, "tokA")).type = "AUTH"

\* C25: every live client with an expiresAt has its own armed expiry timer,
\* whatever other clients did in the meantime.
C25_TimerPerClient ==
  \A c \in clients :
    (sock[c] = "open" /\ expiresAt[c] # Null) => authTimer = c

\* C26: the expiry timer fires only for a client that is still connected and
\* still in the epoch the timer was armed for: its expiresAt is set.
C26_TimerStaysInEpoch ==
  [][authTimerFires => (sock[authTimer] = "open" /\ expiresAt[authTimer] # Null)]_vars

\* C27: a frame of type AUTH is never emitted as websocket.message: the
\* parsed-message handler, which emits it, never runs for an AUTH message.
C27_AuthNotReEmitted ==
  [][\A t \in BagToSet(tasks) : parsedMessage(t) => t.msg.type # "AUTH"]_vars

\* C28: a dispatch with action 'status' goes on to the read, and to a frame,
\* only for a subscription on directus_users with the status flag and
\* without an item: every other subscription is skipped.
C28_StatusDispatchFilter ==
  \A t \in BagToSet(tasks) :
    (t.kind = "disp" /\ t.action = "status") =>
      /\ t.sub.collection = "directus_users"
      /\ t.sub.status
      /\ t.sub.item = Null

\* C29: no step of a dispatch changes the registry; and when the read for one
\* subscription throws, that client is sent an error frame, no socket is
\* closed, and the loop goes on to the next subscription of the bucket that
\* its filters do not skip.
C29_DispatchKeepsRegistry ==
  [][\A t \in BagToSet(tasks) :
       /\ (dispatchRefreshed(t) \/ dispatchRead(t, TRUE) \/ dispatchRead(t, FALSE))
            => (subscriptions' = subscriptions /\ keys' = keys)
       /\ dispatchRead(t, FALSE) =>
            /\ sock' = sock
            /\ Len(sent'[t.client]) = Len(sent[t.client]) + 1
            /\ sent'[t.client][Len(sent'[t.client])].frame.status = "error"
            /\ \A s \in Bucket(subscriptions, t.collection) :
                 (s.seq > t.sub.seq /\ ~skipped(s, t.action)) =>
                   \E u \in BagToSet(tasks') :
                     /\ u.kind = "disp" /\ u.collection = t.collection /\ u.ev = t.ev
                     /\ u.sub.seq > t.sub.seq /\ u.sub.seq <= s.seq]_vars

\* The read of an event's dispatch threw for the first subscription of a
\* bucket, which is still registered on an open socket, and the second
\* subscription of the bucket got its frame for that event.
C29_Witness ==
  \E c, d \in Clients :
    /\ c # d /\ sock[c] = "open" /\ nEvents = 1
    /\ \E s \in subscriptions : s.client = c /\ s.seq = 1
    /\ \E i \in 1..Len(sent[c]) :
         sent[c][i].frame.status = "error" /\ sent[c][i].frame.ev = 1
         /\ sent[c][i].frame.sub = 1
    /\ \E j \in 1..Len(sent[d]) :
         sent[d][j].frame.type = "subscription" /\ sent[d][j].frame.ev = 1
         /\ sent[d][j].frame.sub = 2

\* The frames sent to a subscription for an event: subscription frames and
\* the error frames of the dispatch.
eventFrames(s, ev) ==
  {i \in 1..Len(sent[s.client]) :
     sent[s.client][i].frame.sub = s.seq /\ sent[s.client][i].frame.ev = ev}

\* The dispatch of an event has ended.
dispatched(ev) == \A t \in BagToSet(tasks) : ~(t.kind = "disp" /\ t.ev = ev)

\* A subscription has got at most one frame for an event, exactly one once
\* the dispatch of the event has ended, and a subscription frame among them
\* carries the action of the event.
oneFrame(s, ev) ==
  /\ Cardinality(eventFrames(s, ev)) <= 1
  /\ dispatched(ev) => Cardinality(eventFrames(s, ev)) = 1
  /\ \A i \in eventFrames(s, ev) :
       \/ sent[s.client][i].frame.status = "error"
       \/ /\ sent[s.client][i].frame.type = "subscription"
          /\ sent[s.client][i].frame.event = emitted[ev].action

\* The dispatch of an event works on subscriptions of its collection only.
ownCollection(ev) ==
  \A t \in BagToSet(tasks) :
    (t.kind = "disp" /\ t.ev = ev) => t.sub.collection = emitted[ev].collection

C32_OwnerStillConnected ==
  \A s \in subscriptions : sock[s.client] # "closed"

\* C33: the SUBSCRIBE handling of a client, when it removes the prior
\* subscription, leaves every subscription of that client with another uid
\* registered.
C33_SubscribeKeepsOtherUids ==
  [][\A t \in BagToSet(tasks) :
       onMessageSchema(t) =>
         \A s \in subscriptions :
           (s.client = t.client /\ s.uid # t.msg.uid) => s \in subscriptions']_vars

\* C34: when a client has subscribed under uid a1 with success and then sent
\* a second SUBSCRIBE under uid a1 whose initial read failed, the registry
\* still holds a subscription of that client with uid a1.
C34_FailedResubscribeKeepsPrior ==
  \A c \in Clients :
    ( /\ received[c] = <<SubscribeFrame("articles", Null, FALSE, "a1", "q1"),
                         SubscribeFrame("articles", Null, FALSE, "a1", "q2")>>
      /\ inFlight(c) = {}
      /\ Len(sent[c]) = 2
      /\ sent[c][1].frame.event = "init"
      /\ sent[c][2].frame = subscribeError("FORBIDDEN", "a1") )
    => \E s \in subscriptions : s.client = c /\ s.uid = "a1"

\* C35: outside public mode, a client whose AUTH frame after TOKEN_EXPIRED
\* failed, whose grace period is over and whose epoch holds no user and no
\* expiry, is not left open.
C35_FailedAuthInGraceCloses ==
  \A c \in bound :
    ( /\ mode # "public"
      /\ Len(sent[c]) >= 2
      /\ sent[c][Len(sent[c]) - 1].frame = authenticationError("TOKEN_EXPIRED")
      /\ sent[c][Len(sent[c])].frame = authenticationError("AUTHENTICATION_FAILED")
      /\ c \notin grace
      /\ inFlight(c) = {}
      /\ expiresAt[c] = Null /\ accountability[c].user = Null )
    => sock[c] # "open"

\* C31: when authentication on a socket opened after a reconnect calls the
\* connect callbacks, the client passed to them writes to an open socket.
C31_ReconnectClientWritesToOpen ==
  \A call \in connectCalls :
    (call.by = "authenticate" /\ call.reconnected) => call.thisWs = "open"

====
